---- MODULE Spec2Model ----
(***************************************************************************)
(* Model of app.py: an in-memory sensor store (sensor_data), a dictionary  *)
(* of remote controls (device_controls), the Flask request handlers that   *)
(* read and write them, and the background cleanup thread.                 *)
(*                                                                         *)
(* Spec, SpecCtl, SpecValidate                                             *)
(*           every handler and every cleanup pass runs atomically; the     *)
(*           three differ in the requests that are sent.                   *)
(* SpecConc, SpecPrune                                                     *)
(*           request threads, a reader and the cleanup thread interleave   *)
(*           between the separate list operations of the code.             *)
(***************************************************************************)
EXTENDS Integers, Sequences, FiniteSets, TLC

\* ------------------------------------------------------------------------
\* Bounds of the model
\* ------------------------------------------------------------------------
\* number of POST /data requests the environment sends; each of them reads
\* a later time from the clock
MaxIngests == 3
\* number of POST /control/<key> requests the environment sends
MaxControls == 1
\* number of POST /data requests in the interleaved specifications
MaxIngestsConc == 2
\* the same two bounds for SpecCtl, which sends fewer kinds of reading and
\* more control requests
MaxIngestsCtl == 2
MaxControlsCtl == 2
\* the same two bounds for SpecRead, which also sends the GET requests
MaxIngestsRead == 3
MaxControlsRead == 1
\* POST /data requests beside the fairly scheduled cleanup thread
MaxIngestsLive == 4
\* system_config['max_records'], scaled down so that the store can exceed it
max_records == 1

\* ------------------------------------------------------------------------
\* Python values (what request.get_json() yields and what the casts return)
\* tag: "none" | "bool" | "int" | "float" | "str"
\* n  : bool 0/1, int value, float value in tenths;  s : the string
\* ------------------------------------------------------------------------
PyNone == [tag |-> "none", n |-> 0, s |-> ""]
PyBool(b) == [tag |-> "bool", n |-> IF b THEN 1 ELSE 0, s |-> ""]
PyInt(k) == [tag |-> "int", n |-> k, s |-> ""]
PyFloat(tenths) == [tag |-> "float", n |-> tenths, s |-> ""]
PyStr(str) == [tag |-> "str", n |-> 0, s |-> str]

IsNumber(v) == v.tag \in {"bool", "int", "float"}
\* numeric value in tenths
Tenths(v) == IF v.tag = "float" THEN v.n ELSE 10 * v.n

\* Python ==  on JSON scalars: None only equals None, bool/int/float compare
\* by numeric value (True == 1 == 1.0), strings by content
PyEq(a, b) ==
    IF IsNumber(a) /\ IsNumber(b) THEN Tenths(a) = Tenths(b)
    ELSE a.tag = b.tag /\ a.s = b.s /\ a.tag \in {"none", "str"}

\* strings that float()/int() can parse, with their value
NumericStr == {"7"}
StrValue(str) == 7

\* truncation toward zero of a value in tenths
Trunc(t) == IF t >= 0 THEN t \div 10 ELSE -((-t) \div 10)

\* float(v): [ok, val, err]
CastFloat(v) ==
    CASE v.tag = "none" -> [ok |-> FALSE, val |-> PyNone, err |-> "TypeError"]
      [] v.tag = "str" ->
            IF v.s \in NumericStr
            THEN [ok |-> TRUE, val |-> PyFloat(10 * StrValue(v.s)), err |-> ""]
            ELSE [ok |-> FALSE, val |-> PyNone, err |-> "ValueError"]
      [] OTHER -> [ok |-> TRUE, val |-> PyFloat(Tenths(v)), err |-> ""]

\* int(v)
CastInt(v) ==
    CASE v.tag = "none" -> [ok |-> FALSE, val |-> PyNone, err |-> "TypeError"]
      [] v.tag = "str" ->
            IF v.s \in NumericStr
            THEN [ok |-> TRUE, val |-> PyInt(StrValue(v.s)), err |-> ""]
            ELSE [ok |-> FALSE, val |-> PyNone, err |-> "ValueError"]
      [] OTHER -> [ok |-> TRUE, val |-> PyInt(Trunc(Tenths(v))), err |-> ""]

\* bool(v): truthiness, never fails
CastBool(v) ==
    CASE v.tag = "none" -> [ok |-> TRUE, val |-> PyBool(FALSE), err |-> ""]
      [] v.tag = "str" -> [ok |-> TRUE, val |-> PyBool(v.s # ""), err |-> ""]
      [] OTHER -> [ok |-> TRUE, val |-> PyBool(v.n # 0), err |-> ""]

\* ------------------------------------------------------------------------
\* Dictionaries are functions from the keys present to Python values
\* ------------------------------------------------------------------------
EmptyDict == [k \in {} |-> PyNone]
\* d.get(key)
Get(d, key) == IF key \in DOMAIN d THEN d[key] ELSE PyNone

required_fields == <<"temperature", "humidity", "gas_level", "motion_detected">>
RequiredSet == {required_fields[i] : i \in 1..4}

OverrideKeys == {"temperature_override", "humidity_override", "gas_override", "motion_override"}
FlagKeys == {"lights", "alarm", "simulation_mode"}
ControlNames == {"temperature", "humidity", "gas", "motion", "lights", "alarm", "simulation_mode"}

\* the initial value of device_controls, and what reset_all_controls assigns
DefaultControls ==
    [k \in OverrideKeys \cup FlagKeys |-> IF k \in OverrideKeys THEN PyNone ELSE PyBool(FALSE)]

\* f"{key.split('_')[0]}_override" for the four reading fields
IngestOverrideKey(key) ==
    CASE key = "temperature" -> "temperature_override"
      [] key = "humidity" -> "humidity_override"
      [] key = "gas_level" -> "gas_override"
      [] key = "motion_detected" -> "motion_override"

\* override_key of a control endpoint
ControlKey(key) ==
    IF key \in {"temperature", "humidity", "gas", "motion"}
    THEN CASE key = "temperature" -> "temperature_override"
           [] key = "humidity" -> "humidity_override"
           [] key = "gas" -> "gas_override"
           [] key = "motion" -> "motion_override"
    ELSE key

\* variant: a value that cannot be cast counts as None
cast_type_NoneOnError(key, v) ==
    LET c == CASE key \in {"temperature", "humidity"} -> CastFloat(v)
               [] key = "gas" -> CastInt(v)
               [] OTHER -> CastBool(v)
    IN IF c.ok THEN c ELSE [ok |-> TRUE, val |-> PyNone, err |-> ""]

\* cast_type of each generated endpoint
cast_type(key, v) ==
    CASE key \in {"temperature", "humidity"} -> CastFloat(v)
      [] key = "gas" -> CastInt(v)
      [] OTHER -> CastBool(v)


\* ------------------------------------------------------------------------
\* Inputs the environment sends
\* ------------------------------------------------------------------------
RawTemperatures == {PyInt(22), PyInt(23)}
\* device_id values of a request that carries one (JSON strings and null)
DeviceIds == {PyStr("a"), PyStr("b"), PyNone}
\* bodies of POST /control/<key>: no 'value', null, a number
ControlValues == {PyNone, PyFloat(255)}
ControlBodies == {EmptyDict} \cup {[k \in {"value"} |-> v] : v \in ControlValues}

RawValue(k, t, did) ==
    CASE k = "temperature" -> t
      [] k = "humidity" -> PyInt(40)
      [] k = "gas_level" -> PyInt(10)
      [] k = "motion_detected" -> PyBool(TRUE)
      [] k = "device_id" -> did

\* bodies of POST /data: complete readings of every temperature, with and
\* without a device_id, and readings that lack any of the required fields
CompleteInputs ==
    { [k \in RequiredSet \cup D |-> RawValue(k, t, did)] :
        D \in SUBSET {"device_id"}, t \in RawTemperatures, did \in DeviceIds }
IncompleteInputs ==
    { [k \in K |-> RawValue(k, PyInt(22), PyNone)] : K \in (SUBSET RequiredSet) \ {RequiredSet} }
RawInputs == CompleteInputs \cup IncompleteInputs
\* the complete readings and the empty body
RawInputsStore == CompleteInputs \cup {EmptyDict}

\* ------------------------------------------------------------------------
\* State
\* ------------------------------------------------------------------------
VARIABLES
    sensor_data,      \* the list of stored readings, oldest first
    device_controls,  \* the dictionary of overrides and flags
    now,              \* the clock read by datetime.utcnow(): it advances with
                      \* every POST /data request
    resp,             \* the response of the last request handled
    last,             \* history: the last operation, what it was sent and the
                      \* store it started from
    nControl,         \* POST /control/<key> requests sent so far
    pc,               \* per handler thread: where it is in receive_data
    hdata,            \* per handler thread: its local dictionary 'data'
    filtered,         \* per handler thread: the list built by the comprehension
    cpc,              \* where the cleanup thread is in its loop
    rpc,              \* where the reader is in get_all_data
    observed,         \* what the reader has read from sensor_data
    calls,            \* history: the records of the ingests that got past validation
    pre,              \* history, per handler thread: the store when its ingest began
    solo              \* history, per handler thread: nothing else has touched the
                      \* store since its ingest began

\* the variables of the interleaved specifications
threadVars == <<pc, hdata, filtered, cpc, rpc, observed, calls, pre, solo>>

vars == <<sensor_data, device_controls, now, resp, last, nControl, threadVars>>

\* request threads of the server
Handlers == {"h1", "h2"}

\* datetime.isoformat() of a clock reading
isoformat(t) == PyStr("2025-01-01T00:00:0" \o ToString(t))

Response(op, status, error, data, current) ==
    [op |-> op, status |-> status, error |-> error, data |-> data,
     current_override |-> current, controls |-> device_controls,
     records |-> <<>>, total_records |-> 0,
     active_controls |-> 0, last_update |-> PyNone]

NoResponse ==
    [op |-> "", status |-> 0, error |-> "", data |-> EmptyDict,
     current_override |-> PyNone, controls |-> DefaultControls,
     records |-> <<>>, total_records |-> 0,
     active_controls |-> 0, last_update |-> PyNone]

\* the history record of an operation
Op(name, key, body) ==
    [op |-> name, key |-> key, body |-> body, before |-> sensor_data]

Init ==
    /\ sensor_data = <<>>
    /\ last = [op |-> "", key |-> "", body |-> EmptyDict, before |-> <<>>]
    /\ pc = [h \in Handlers |-> "idle"]
    /\ hdata = [h \in Handlers |-> EmptyDict]
    /\ filtered = [h \in Handlers |-> <<>>]
    /\ cpc = "check"
    /\ rpc = "idle"
    /\ observed = [store |-> <<>>, legal |-> {<<>>}, data |-> <<>>]
    /\ calls = {}
    /\ pre = [h \in Handlers |-> <<>>]
    /\ solo = [h \in Handlers |-> FALSE]
    /\ device_controls = DefaultControls
    /\ now = 0
    /\ resp = NoResponse
    /\ nControl = 0

\* ------------------------------------------------------------------------
\* receive_data
\* ------------------------------------------------------------------------
\* variant: reports the last missing field instead of the first
FirstMissing_Last(data) ==
    IF \A i \in 1..4 : required_fields[i] \in DOMAIN data THEN 0
    ELSE CHOOSE i \in 1..4 :
            /\ required_fields[i] \notin DOMAIN data
            /\ \A j \in (i + 1)..4 : required_fields[j] \in DOMAIN data

\* index of the first required field that is not in data, 0 if none
FirstMissing(data) ==
    IF \A i \in 1..4 : required_fields[i] \in DOMAIN data THEN 0
    ELSE CHOOSE i \in 1..4 :
            /\ required_fields[i] \notin DOMAIN data
            /\ \A j \in 1..(i - 1) : required_fields[j] \in DOMAIN data

\* variant: tests the override for truth instead of "is not None"
ApplyOverrides_Truthy(data, controls) ==
    [k \in DOMAIN data |->
        IF k \in RequiredSet /\ CastBool(controls[IngestOverrideKey(k)]).val = PyBool(TRUE)
        THEN controls[IngestOverrideKey(k)]
        ELSE data[k]]

\* the loop "Apply control overrides"
ApplyOverrides(data, controls) ==
    [k \in DOMAIN data |->
        IF k \in RequiredSet /\ controls[IngestOverrideKey(k)] # PyNone
        THEN controls[IngestOverrideKey(k)]
        ELSE data[k]]

\* data.update({...}): timestamp and the three flags
AddStamp(data, controls, t) ==
    [k \in DOMAIN data \cup {"timestamp", "lights", "alarm", "simulation_mode"} |->
        CASE k = "timestamp" -> isoformat(t)
          [] k \in FlagKeys -> controls[k]
          [] OTHER -> data[k]]

\* variant: the comprehension keeps every record
FilterOthers_KeepAll(store, data) == store

\* [d for d in sensor_data if d.get('device_id') != data['device_id']]
FilterOthers(store, data) ==
    SelectSeq(store, LAMBDA d : ~PyEq(Get(d, "device_id"), data["device_id"]))

\* variant: the else branch does not clear the store
Replaced_NoClear(store, data) ==
    IF "device_id" \in DOMAIN data THEN FilterOthers(store, data) ELSE store

\* the store after "Replace existing data for the same device or keep only
\* the latest", before the append
Replaced(store, data) ==
    IF "device_id" \in DOMAIN data THEN FilterOthers(store, data) ELSE <<>>

\* variant: the new record goes to the front of the list
receive_data_Prepend(raw) ==
    /\ now' = now + 1
    /\ last' = Op("receive_data", "", raw)
    /\ LET miss == FirstMissing(raw) IN
        IF miss # 0
        THEN /\ resp' = Response("receive_data", 400,
                          "Missing required field: " \o required_fields[miss],
                          EmptyDict, PyNone)
             /\ UNCHANGED sensor_data
        ELSE LET data == AddStamp(ApplyOverrides(raw, device_controls), device_controls, now) IN
             /\ sensor_data' = <<data>> \o Replaced(sensor_data, data)
             /\ resp' = Response("receive_data", 200, "", data, PyNone)
    /\ UNCHANGED <<device_controls, nControl, threadVars>>

receive_data(raw) ==
    /\ now' = now + 1
    /\ last' = Op("receive_data", "", raw)
    /\ LET miss == FirstMissing(raw) IN
        IF miss # 0
        THEN /\ resp' = Response("receive_data", 400,
                          "Missing required field: " \o required_fields[miss],
                          EmptyDict, PyNone)
             /\ UNCHANGED sensor_data
        ELSE LET data == AddStamp(ApplyOverrides(raw, device_controls), device_controls, now) IN
             /\ sensor_data' = Append(Replaced(sensor_data, data), data)
             /\ resp' = Response("receive_data", 200, "", data, PyNone)
    /\ UNCHANGED <<device_controls, nControl, threadVars>>

\* ------------------------------------------------------------------------
\* control endpoints, resets, cleanup
\* ------------------------------------------------------------------------
\* variant: stored records share the flags with device_controls instead of
\* holding copies
control_Live(key, body) ==
    /\ nControl' = nControl + 1
    /\ last' = Op("control", key, body)
    /\ IF "value" \in DOMAIN body
       THEN LET c == cast_type(key, body["value"]) IN
            IF c.ok
            THEN /\ device_controls' = [device_controls EXCEPT ![ControlKey(key)] = c.val]
                 /\ resp' = [Response("control", 200, "", EmptyDict, c.val)
                                EXCEPT !.controls = device_controls']
            ELSE /\ resp' = Response("control", 500, c.err, EmptyDict, PyNone)
                 /\ UNCHANGED device_controls
       ELSE /\ device_controls' = [device_controls EXCEPT ![ControlKey(key)] = PyNone]
            /\ resp' = [Response("control", 200, "", EmptyDict, PyNone)
                           EXCEPT !.controls = device_controls']
    /\ sensor_data' = [i \in 1..Len(sensor_data) |->
                         [k \in DOMAIN sensor_data[i] |->
                             IF k \in FlagKeys THEN device_controls'[k]
                             ELSE sensor_data[i][k]]]
    /\ UNCHANGED <<now, threadVars>>

control(key, body) ==
    /\ nControl' = nControl + 1
    /\ last' = Op("control", key, body)
    /\ IF "value" \in DOMAIN body
       THEN LET c == cast_type(key, body["value"]) IN
            IF c.ok
            THEN /\ device_controls' = [device_controls EXCEPT ![ControlKey(key)] = c.val]
                 /\ resp' = [Response("control", 200, "", EmptyDict, c.val)
                                EXCEPT !.controls = device_controls']
            ELSE /\ resp' = Response("control", 500, c.err, EmptyDict, PyNone)
                 /\ UNCHANGED device_controls
       ELSE /\ device_controls' = [device_controls EXCEPT ![ControlKey(key)] = PyNone]
            /\ resp' = [Response("control", 200, "", EmptyDict, PyNone)
                           EXCEPT !.controls = device_controls']
    /\ UNCHANGED <<sensor_data, now, threadVars>>

\* variant: restores the four overrides and leaves the three flags
reset_all_controls_KeepFlags ==
    /\ last' = Op("reset_all_controls", "", EmptyDict)
    /\ device_controls' = [k \in ControlNames |->
                             IF k \in FlagKeys THEN device_controls[k] ELSE PyNone]
    /\ resp' = [Response("reset_all_controls", 200, "", EmptyDict, PyNone)
                   EXCEPT !.controls = device_controls']
    /\ UNCHANGED <<sensor_data, now, nControl, threadVars>>

reset_all_controls ==
    /\ last' = Op("reset_all_controls", "", EmptyDict)
    /\ device_controls' = DefaultControls
    /\ resp' = [Response("reset_all_controls", 200, "", EmptyDict, PyNone)
                   EXCEPT !.controls = DefaultControls]
    /\ UNCHANGED <<sensor_data, now, nControl, threadVars>>

\* variant: keeps the newest record
reset_sensor_data_KeepLast ==
    /\ last' = Op("reset_sensor_data", "", EmptyDict)
    /\ sensor_data' = IF sensor_data = <<>> THEN <<>>
                      ELSE <<sensor_data[Len(sensor_data)]>>
    /\ resp' = Response("reset_sensor_data", 200, "", EmptyDict, PyNone)
    /\ solo' = [h \in Handlers |-> FALSE]
    /\ UNCHANGED <<device_controls, now, nControl>>
    /\ UNCHANGED <<pc, hdata, filtered, cpc, rpc, observed, calls, pre>>

reset_sensor_data ==
    /\ last' = Op("reset_sensor_data", "", EmptyDict)
    /\ sensor_data' = <<>>
    /\ resp' = Response("reset_sensor_data", 200, "", EmptyDict, PyNone)
    /\ solo' = [h \in Handlers |-> FALSE]
    /\ UNCHANGED <<device_controls, now, nControl>>
    /\ UNCHANGED <<pc, hdata, filtered, cpc, rpc, observed, calls, pre>>

\* one pass of the loop body of cleanup_old_data
CleanupPass(store) ==
    IF Len(store) > max_records THEN Tail(store) ELSE store

cleanup_old_data ==
    /\ last' = Op("cleanup_old_data", "", EmptyDict)
    /\ sensor_data' = CleanupPass(sensor_data)
    /\ UNCHANGED <<device_controls, now, resp, nControl, threadVars>>

\* ------------------------------------------------------------------------
\* read endpoints
\* ------------------------------------------------------------------------
\* variant: the list in storage order
Reverse_Forward(seq) == seq

\* sensor_data[::-1]
Reverse(seq) == [i \in 1..Len(seq) |-> seq[Len(seq) + 1 - i]]

\* GET /data
get_all_data ==
    /\ last' = Op("get_all_data", "", EmptyDict)
    /\ resp' = [Response("get_all_data", 200, "", EmptyDict, PyNone)
                   EXCEPT !.records = Reverse(sensor_data),
                          !.total_records = Len(sensor_data)]
    /\ UNCHANGED <<sensor_data, device_controls, now, nControl, threadVars>>

\* GET /latest
get_latest_data ==
    /\ last' = Op("get_latest_data", "", EmptyDict)
    /\ resp' = IF sensor_data # <<>>
               THEN Response("get_latest_data", 200, "", sensor_data[Len(sensor_data)], PyNone)
               ELSE Response("get_latest_data", 404, "No data available", EmptyDict, PyNone)
    /\ UNCHANGED <<sensor_data, device_controls, now, nControl, threadVars>>

\* GET /controls
get_all_controls ==
    /\ last' = Op("get_all_controls", "", EmptyDict)
    /\ resp' = Response("get_all_controls", 200, "", EmptyDict, PyNone)
    /\ UNCHANGED <<sensor_data, device_controls, now, nControl, threadVars>>

\* v in [None, False]: list membership compares with ==
InNoneFalse(v) == PyEq(v, PyNone) \/ PyEq(v, PyBool(FALSE))

\* sum(1 for v in device_controls.values() if v not in [None, False])
ActiveControls(controls) ==
    Cardinality({k \in DOMAIN controls : ~InNoneFalse(controls[k])})

\* GET /status
system_status ==
    /\ last' = Op("system_status", "", EmptyDict)
    /\ resp' = [Response("system_status", 200, "", EmptyDict, PyNone)
                   EXCEPT !.total_records = Len(sensor_data),
                          !.active_controls = ActiveControls(device_controls),
                          !.last_update = IF sensor_data # <<>>
                                          THEN sensor_data[Len(sensor_data)]["timestamp"]
                                          ELSE PyNone]
    /\ UNCHANGED <<sensor_data, device_controls, now, nControl, threadVars>>

\* Spec: readings of every kind, few control requests: one override and
\* one flag
ControlNamesFew == {"temperature", "lights"}

Next ==
    \/ \E raw \in RawInputsStore : now < MaxIngests /\ receive_data(raw)
    \/ \E key \in ControlNamesFew, body \in ControlBodies :
            nControl < MaxControls /\ control(key, body)
    \/ reset_all_controls
    \/ reset_sensor_data
    \/ cleanup_old_data

Spec == Init /\ [][Next]_vars

\* SpecCtl: the same handlers, readings of one device or of none, more
\* control requests
RawInputsCtl ==
    { raw \in RawInputsStore :
        /\ Get(raw, "temperature") # PyInt(23)
        /\ Get(raw, "device_id") \in {PyNone, PyStr("a")}
        /\ ("device_id" \in DOMAIN raw => raw["device_id"] # PyNone) }

NextCtl ==
    \/ \E raw \in RawInputsCtl : now < MaxIngestsCtl /\ receive_data(raw)
    \/ \E key \in ControlNames, body \in ControlBodies :
            nControl < MaxControlsCtl /\ control(key, body)
    \/ reset_all_controls
    \/ reset_sensor_data
    \/ cleanup_old_data

SpecCtl == Init /\ [][NextCtl]_vars

\* SpecValidate: the same handlers, readings without device_id that have or
\* lack any of the required fields, control values that can and cannot be
\* cast
RawInputsValidate ==
    IncompleteInputs \cup {raw \in CompleteInputs : raw = [k \in RequiredSet |-> RawValue(k, PyInt(22), PyNone)]}

\* control bodies of SpecValidate: also a string that is no number
ControlBodiesValidate ==
    ControlBodies \cup {[k \in {"value"} |-> PyStr("abc")]}

NextValidate ==
    \/ \E raw \in RawInputsValidate : now < MaxIngestsCtl /\ receive_data(raw)
    \/ \E key \in ControlNamesFew, body \in ControlBodiesValidate :
            nControl < MaxControlsCtl /\ control(key, body)
    \/ reset_all_controls
    \/ reset_sensor_data
    \/ cleanup_old_data

SpecValidate == Init /\ [][NextValidate]_vars

\* SpecRead: the same handlers and the GET handlers; readings of one
\* temperature, control requests for two overrides and one flag
RawInputsRead ==
    { raw \in RawInputsStore : Get(raw, "temperature") # PyInt(23) }
ControlNamesRead == {"temperature", "motion", "lights"}

NextRead ==
    \/ \E raw \in RawInputsRead : now < MaxIngestsRead /\ receive_data(raw)
    \/ \E key \in ControlNamesRead, body \in ControlBodies :
            nControl < MaxControlsRead /\ control(key, body)
    \/ reset_all_controls
    \/ reset_sensor_data
    \/ cleanup_old_data
    \/ get_all_data
    \/ get_latest_data
    \/ get_all_controls
    \/ system_status

SpecRead == Init /\ [][NextRead]_vars


\* ------------------------------------------------------------------------
\* Interleaved execution: the server runs each request in a thread of its
\* own and cleanup_old_data in a daemon thread; a thread switch can fall
\* between any two list operations (each list operation is atomic).
\* ------------------------------------------------------------------------
\* readings sent in the interleaved specifications: complete ones of one
\* temperature, and the empty body
RawInputsConc ==
    { raw \in RawInputsStore : Get(raw, "temperature") # PyInt(23) }

\* receive_data up to and including data.update (lines 82-102)
rd_validate(h, raw) ==
    /\ pc[h] = "idle"
    /\ now' = now + 1
    /\ IF FirstMissing(raw) # 0
       THEN /\ resp' = Response("receive_data", 400,
                         "Missing required field: " \o required_fields[FirstMissing(raw)],
                         EmptyDict, PyNone)
            /\ UNCHANGED <<pc, hdata, calls, pre, solo>>
       ELSE LET d == AddStamp(ApplyOverrides(raw, device_controls), device_controls, now) IN
            /\ hdata' = [hdata EXCEPT ![h] = d]
            /\ pc' = [pc EXCEPT ![h] = "replace"]
            /\ calls' = calls \cup {d}
            /\ pre' = [pre EXCEPT ![h] = sensor_data]
            /\ solo' = [x \in Handlers |-> x = h /\ \A y \in Handlers \ {h} : pc[y] = "idle"]
            /\ UNCHANGED resp
    /\ UNCHANGED <<sensor_data, device_controls, last, nControl, filtered, cpc, rpc, observed>>

\* the list comprehension of line 106 builds the new list
rd_filter(h) ==
    /\ pc[h] = "replace"
    /\ "device_id" \in DOMAIN hdata[h]
    /\ filtered' = [filtered EXCEPT ![h] = FilterOthers(sensor_data, hdata[h])]
    /\ pc' = [pc EXCEPT ![h] = "assign"]
    /\ UNCHANGED <<sensor_data, device_controls, now, resp, last, nControl>>
    /\ UNCHANGED <<hdata, cpc, rpc, observed, calls, pre, solo>>

\* the slice assignment of line 106 stores it
rd_assign(h) ==
    /\ pc[h] = "assign"
    /\ sensor_data' = filtered[h]
    /\ filtered' = [filtered EXCEPT ![h] = <<>>]
    /\ pc' = [pc EXCEPT ![h] = "append"]
    /\ solo' = [x \in Handlers |-> solo[x] /\ x = h]
    /\ UNCHANGED <<device_controls, now, resp, last, nControl>>
    /\ UNCHANGED <<hdata, cpc, rpc, observed, calls, pre>>

\* sensor_data.clear() of line 108
rd_clear(h) ==
    /\ pc[h] = "replace"
    /\ "device_id" \notin DOMAIN hdata[h]
    /\ sensor_data' = <<>>
    /\ pc' = [pc EXCEPT ![h] = "append"]
    /\ solo' = [x \in Handlers |-> solo[x] /\ x = h]
    /\ UNCHANGED <<device_controls, now, resp, last, nControl>>
    /\ UNCHANGED <<hdata, filtered, cpc, rpc, observed, calls, pre>>

\* sensor_data.append(data) and the response (lines 110-117)
rd_append(h) ==
    /\ pc[h] = "append"
    /\ sensor_data' = Append(sensor_data, hdata[h])
    /\ resp' = Response("receive_data", 200, "", hdata[h], PyNone)
    /\ hdata' = [hdata EXCEPT ![h] = EmptyDict]
    /\ pc' = [pc EXCEPT ![h] = "idle"]
    /\ solo' = [x \in Handlers |-> FALSE]
    /\ UNCHANGED <<device_controls, now, last, nControl>>
    /\ UNCHANGED <<filtered, cpc, rpc, observed, calls, pre>>

\* history: the stores a reader may see if ingests are atomic for it: while
\* one ingest runs alone, the store it began from and the store it ends with
LegalStores ==
    IF \E h \in Handlers : pc[h] # "idle" /\ solo[h]
    THEN LET h == CHOOSE x \in Handlers : pc[x] # "idle" /\ solo[x] IN
         {pre[h], Append(Replaced(pre[h], hdata[h]), hdata[h])}
    ELSE {sensor_data}

\* get_all_data reads sensor_data[::-1] (line 127)
ga_read ==
    /\ rpc = "idle"
    /\ observed' = [store |-> sensor_data, legal |-> LegalStores, data |-> Reverse(sensor_data)]
    /\ rpc' = "len"
    /\ UNCHANGED <<sensor_data, device_controls, now, resp, last, nControl>>
    /\ UNCHANGED <<pc, hdata, filtered, cpc, calls, pre, solo>>

\* get_all_data reads len(sensor_data) and answers (lines 128-131)
ga_respond ==
    /\ rpc = "len"
    /\ resp' = [Response("get_all_data", 200, "", EmptyDict, PyNone)
                   EXCEPT !.records = observed.data, !.total_records = Len(sensor_data)]
    /\ rpc' = "idle"
    /\ UNCHANGED <<sensor_data, device_controls, now, last, nControl>>
    /\ UNCHANGED <<pc, hdata, filtered, cpc, observed, calls, pre, solo>>

\* the test of line 58
cl_check ==
    /\ cpc = "check"
    /\ cpc' = IF Len(sensor_data) > max_records THEN "pop" ELSE "sleep"
    /\ UNCHANGED <<sensor_data, device_controls, now, resp, last, nControl>>
    /\ UNCHANGED <<pc, hdata, filtered, rpc, observed, calls, pre, solo>>

\* sensor_data.pop(0) of line 59: IndexError on an empty list, which nothing
\* catches, so the thread ends
cl_pop ==
    /\ cpc = "pop"
    /\ IF sensor_data = <<>>
       THEN /\ cpc' = "dead"
            /\ UNCHANGED <<sensor_data, solo>>
       ELSE /\ sensor_data' = Tail(sensor_data)
            /\ cpc' = "sleep"
            /\ solo' = [x \in Handlers |-> FALSE]
    /\ UNCHANGED <<device_controls, now, resp, last, nControl>>
    /\ UNCHANGED <<pc, hdata, filtered, rpc, observed, calls, pre>>

\* time.sleep(60) returns
cl_sleep ==
    /\ cpc = "sleep"
    /\ cpc' = "check"
    /\ UNCHANGED <<sensor_data, device_controls, now, resp, last, nControl>>
    /\ UNCHANGED <<pc, hdata, filtered, rpc, observed, calls, pre, solo>>

\* SpecConc: two request threads ingest while a third reads
NextConc ==
    \/ \E h \in Handlers, raw \in RawInputsConc : now < MaxIngestsConc /\ rd_validate(h, raw)
    \/ \E h \in Handlers : rd_filter(h)
    \/ \E h \in Handlers : rd_assign(h)
    \/ \E h \in Handlers : rd_clear(h)
    \/ \E h \in Handlers : rd_append(h)
    \/ ga_read
    \/ ga_respond

SpecConc == Init /\ [][NextConc]_vars

\* SpecPrune: the cleanup thread runs beside request threads that ingest and
\* reset
NextPrune ==
    \/ \E h \in Handlers, raw \in RawInputsConc : now < MaxIngestsConc /\ rd_validate(h, raw)
    \/ \E h \in Handlers : rd_filter(h)
    \/ \E h \in Handlers : rd_assign(h)
    \/ \E h \in Handlers : rd_clear(h)
    \/ \E h \in Handlers : rd_append(h)
    \/ reset_sensor_data
    \/ cl_check
    \/ cl_pop
    \/ cl_sleep

SpecPrune == Init /\ [][NextPrune]_vars

\* SpecLive: the cleanup thread, scheduled fairly, beside requests that
\* ingest and reset one at a time
NextLive ==
    \/ \E raw \in RawInputsConc : now < MaxIngestsLive /\ receive_data(raw)
    \/ reset_sensor_data
    \/ cl_check
    \/ cl_pop
    \/ cl_sleep

\* a thread that can run gets to run: the test, the pop and the return of
\* sleep each happen if they stay possible
SpecLive ==
    /\ Init /\ [][NextLive]_vars
    /\ WF_vars(cl_check) /\ WF_vars(cl_pop) /\ WF_vars(cl_sleep)

\* ------------------------------------------------------------------------
\* Properties of the atomic handlers
\* ------------------------------------------------------------------------
\* the last operation was a POST /data that answered 200
LastIngestOk == last.op = "receive_data" /\ resp.status = 200

\* positions of the records of store that carry a device_id equal to did
RecordsOf(store, did) ==
    {i \in 1..Len(store) : "device_id" \in DOMAIN store[i] /\ PyEq(store[i]["device_id"], did)}

\* the value a reading field of the last request must end up with
ExpectedField(k) ==
    IF device_controls[IngestOverrideKey(k)] # PyNone
    THEN device_controls[IngestOverrideKey(k)]
    ELSE last.body[k]

\* C1: with atomic operations the store never holds two records with the
\* same device_id, and right after an ingest carrying device_id d the one
\* record for d is the record of that call: its device_id, its timestamp and
\* its (possibly overridden) readings.
C1_OneRecordPerDevice ==
    /\ \A i, j \in 1..Len(sensor_data) :
         (i < j /\ "device_id" \in DOMAIN sensor_data[i] /\ "device_id" \in DOMAIN sensor_data[j])
            => ~PyEq(sensor_data[i]["device_id"], sensor_data[j]["device_id"])
    /\ (LastIngestOk /\ "device_id" \in DOMAIN last.body) =>
         LET mine == RecordsOf(sensor_data, last.body["device_id"]) IN
         /\ Cardinality(mine) = 1
         /\ \A i \in mine :
              /\ sensor_data[i] = resp.data
              /\ sensor_data[i]["device_id"] = last.body["device_id"]
              /\ sensor_data[i]["timestamp"] = isoformat(now - 1)
              /\ \A k \in RequiredSet : sensor_data[i][k] = ExpectedField(k)

\* a second reading of device "a", with another temperature, has replaced
\* the first one while the record of device "b" stays
C1_Witness ==
    /\ LastIngestOk
    /\ Get(last.body, "device_id") = PyStr("a")
    /\ Len(sensor_data) = 2
    /\ \E i \in RecordsOf(last.before, PyStr("a")) :
         last.before[i]["temperature"] # resp.data["temperature"]
    /\ RecordsOf(sensor_data, PyStr("b")) # {}

\* C2: right after a successful ingest each of the four reading fields, in
\* the result and in the stored record, is the override if the override is
\* not None and the raw input otherwise; a control call without 'value'
\* leaves the override None, so that later ingests pass the raw value.
C2_OverrideOrRaw ==
    /\ LastIngestOk =>
         /\ sensor_data # <<>>
         /\ \A k \in RequiredSet :
              /\ resp.data[k] = ExpectedField(k)
              /\ sensor_data[Len(sensor_data)][k] = ExpectedField(k)
    /\ (last.op = "control" /\ last.key \in {"temperature", "humidity", "gas", "motion"}
            /\ "value" \notin DOMAIN last.body)
         => device_controls[ControlKey(last.key)] = PyNone

\* the temperature override was set for a first reading (stored as 25.5),
\* then cleared, and the reading after that kept its raw 22; the motion
\* override False replaces the raw True in a witness of its own
C2_Witness ==
    /\ LastIngestOk
    /\ Len(sensor_data) = 2
    /\ sensor_data[1]["temperature"] = PyFloat(255)
    /\ device_controls["temperature_override"] = PyNone
    /\ last.body["temperature"] = PyInt(22)
    /\ sensor_data[2]["temperature"] = PyInt(22)
    /\ nControl = 2

\* C3: an ingest that lacks a required field answers 400 and names the first
\* missing field in the order temperature, humidity, gas_level,
\* motion_detected; an ingest with all four answers 200.
C3_MissingFieldRejected ==
    last.op = "receive_data" =>
        IF RequiredSet \subseteq DOMAIN last.body
        THEN resp.status = 200
        ELSE /\ resp.status = 400
             /\ \E i \in 1..4 :
                  /\ required_fields[i] \notin DOMAIN last.body
                  /\ \A j \in 1..4 : j < i => required_fields[j] \in DOMAIN last.body
                  /\ resp.error = "Missing required field: " \o required_fields[i]

\* humidity and motion_detected are both missing: humidity is named
C3_Witness ==
    /\ last.op = "receive_data"
    /\ DOMAIN last.body = {"temperature", "gas_level"}
    /\ resp.status = 400
    /\ resp.error = "Missing required field: humidity"

\* C4: right after a successful ingest without device_id the store is
\* exactly the record just ingested, whatever it held before.
C4_NoDeviceIdSingleSlot ==
    (LastIngestOk /\ "device_id" \notin DOMAIN last.body) => sensor_data = <<resp.data>>

\* the store held two records before the device-less ingest
C4_Witness ==
    /\ LastIngestOk
    /\ "device_id" \notin DOMAIN last.body
    /\ Len(last.before) = 2
    /\ sensor_data = <<resp.data>>

\* the last n elements of a sequence
LastN(seq, n) == IF Len(seq) <= n THEN seq ELSE SubSeq(seq, Len(seq) - n + 1, Len(seq))

\* C5: a cleanup pass ends with at most max_records records, the most
\* recently inserted ones in their order.  (Refuted: one pass removes one
\* record.)
C5_PrunePassBounds ==
    last.op = "cleanup_old_data" =>
        /\ Len(sensor_data) <= max_records
        /\ sensor_data = LastN(last.before, max_records)

\* C9: lights, alarm and simulation_mode always hold a boolean.  (Refuted: a
\* flag request without 'value' stores None.)
C9_FlagsAreBooleans ==
    \A k \in FlagKeys : device_controls[k].tag = "bool"

\* C10: an override request whose 'value' is absent or null leaves that
\* override None.  (Refuted: null is handed to the cast.)
C10_AbsentOrNullClears ==
    (/\ last.op = "control"
     /\ last.key \in {"temperature", "humidity", "gas", "motion"}
     /\ ("value" \notin DOMAIN last.body \/ Get(last.body, "value") = PyNone))
        => device_controls[ControlKey(last.key)] = PyNone


\* ------------------------------------------------------------------------
\* Properties of the interleaved execution
\* ------------------------------------------------------------------------
AllIdle == \A h \in Handlers : pc[h] = "idle"

\* the stores that sequential executions of the ingests in todo, in any
\* order, produce from store
RECURSIVE SerialStores(_, _)
SerialStores(store, todo) ==
    IF todo = {} THEN {store}
    ELSE UNION { SerialStores(Append(Replaced(store, c), c), todo \ {c}) : c \in todo }

\* C6: when concurrent ingests have all returned, the store is one that some
\* sequential execution of the same ingests produces.  (Refuted: two
\* ingests can both remove or clear before either appends.)
C6_Serializable ==
    AllIdle => sensor_data \in SerialStores(<<>>, calls)

\* C7: what a reader gets from sensor_data while an ingest runs is the store
\* from before that ingest or the store after it.  (Refuted: between the
\* slice assignment and the append the old record of the device is gone and
\* the new one not there.)
C7_NoTornRead ==
    observed.store \in observed.legal

\* C8: the cleanup thread never ends.  (Refuted: a clear() between its
\* length test and its pop(0) makes pop raise IndexError.)
C8_CleanupNeverExits ==
    cpc # "dead"

\* ------------------------------------------------------------------------
\* C11 .. C20
\* ------------------------------------------------------------------------
\* the GET handlers
ReadOps == {"get_all_data", "get_latest_data", "get_all_controls", "system_status"}

\* C11: a reset of the controls leaves the four overrides None and the three
\* flags False whatever they were; while they are so, every response that
\* carries the controls shows these values, and a successful ingest returns
\* and stores the raw readings, stamped with lights, alarm and
\* simulation_mode False.
C11_ResetRestoresDefaults ==
    [][ /\ last'.op = "reset_all_controls" =>
              /\ device_controls' = DefaultControls
              /\ resp'.controls = DefaultControls
        /\ (device_controls = DefaultControls /\ last'.op \in ReadOps) =>
              /\ resp'.controls = DefaultControls
              /\ device_controls' = DefaultControls
        /\ (device_controls = DefaultControls /\ last'.op = "receive_data"
                /\ resp'.status = 200) =>
              /\ device_controls' = DefaultControls
              /\ resp'.controls = DefaultControls
              /\ \A k \in RequiredSet : resp'.data[k] = last'.body[k]
              /\ \A k \in FlagKeys : resp'.data[k] = PyBool(FALSE)
              /\ sensor_data'[Len(sensor_data')] = resp'.data
      ]_vars

\* the one control request set the temperature override or the lights flag,
\* a reading was stored under it, the controls were reset (the budget of
\* control requests is spent, so only the reset can have restored them) and
\* the next reading kept its raw temperature and is stamped lights False
C11_Witness ==
    /\ LastIngestOk
    /\ nControl = MaxControlsRead
    /\ device_controls = DefaultControls
    /\ Len(sensor_data) = 2
    /\ \/ sensor_data[1]["temperature"] = PyFloat(255)
       \/ sensor_data[1]["lights"] = PyBool(TRUE)
    /\ resp.data["temperature"] = last.body["temperature"]
    /\ resp.data["lights"] = PyBool(FALSE)

\* the clock reading a record was stamped with
ClockOf(rec) == CHOOSE t \in 0..9 : isoformat(t) = rec["timestamp"]

\* C12: GET /data lists the stored records, each exactly once, from the
\* most recently ingested to the oldest (every ingest stamps its record
\* with a later time than the ones before); GET /latest answers 404 without
\* a record when the store is empty, and otherwise 200 with the most
\* recently ingested record, the one a GET /data just before it listed
\* first.
C12_ListNewestFirst ==
    /\ [](last.op = "get_all_data" =>
            /\ resp.status = 200
            /\ resp.total_records = Len(sensor_data)
            /\ Len(resp.records) = Len(sensor_data)
            /\ \A i \in 1..Len(sensor_data) : \E j \in 1..Len(resp.records) :
                   resp.records[j] = sensor_data[i]
            /\ \A i, j \in 1..Len(resp.records) :
                   i < j => ClockOf(resp.records[i]) > ClockOf(resp.records[j]))
    /\ [](last.op = "get_latest_data" =>
            IF sensor_data = <<>>
            THEN resp.status = 404 /\ resp.data = EmptyDict
            ELSE /\ resp.status = 200
                 /\ \E i \in 1..Len(sensor_data) : sensor_data[i] = resp.data
                 /\ \A i \in 1..Len(sensor_data) :
                       ClockOf(sensor_data[i]) <= ClockOf(resp.data))
    /\ [][(last.op = "get_all_data" /\ last'.op = "get_latest_data"
              /\ resp.records # <<>>)
            => resp'.data = resp.records[1]]_vars

\* GET /data has listed three records, the newest first
C12_Witness ==
    /\ last.op = "get_all_data"
    /\ Len(resp.records) = 3
    /\ ClockOf(resp.records[1]) = 2
    /\ ClockOf(resp.records[3]) = 0

\* C13: once no ingest can follow, a store longer than max_records gets
\* pruned by the fairly scheduled cleanup thread to at most max_records and
\* stays there.  (Refuted: a thread that died of the IndexError of C8
\* prunes nothing, and the store filled after that stays too long.)
C13_PrunedEventually ==
    (now = MaxIngestsLive /\ Len(sensor_data) > max_records)
        ~> [](Len(sensor_data) <= max_records)

\* the records of seq, as a set
Range(seq) == {seq[i] : i \in 1..Len(seq)}

\* seq without its last element
Front(seq) == SubSeq(seq, 1, Len(seq) - 1)

\* C14: right after a successful ingest, with or without device_id, the
\* record of that call is the last of the store and carries the latest
\* timestamp, a GET /latest that follows returns it, and the records before
\* it are records of the store before the call, in the order they had there.
C14_IngestedIsLatest ==
    /\ [](LastIngestOk =>
            /\ sensor_data # <<>>
            /\ sensor_data[Len(sensor_data)] = resp.data
            /\ ClockOf(resp.data) = now - 1
            /\ \A i \in 1..Len(sensor_data) :
                   ClockOf(sensor_data[i]) <= ClockOf(resp.data)
            /\ Front(sensor_data) =
                   SelectSeq(last.before, LAMBDA r : r \in Range(Front(sensor_data))))
    /\ [][(LastIngestOk /\ last'.op = "get_latest_data")
            => (resp'.status = 200 /\ resp'.data = resp.data)]_vars

\* a new reading of device "a" left the older position of "a" and went
\* behind the record of "b", which stayed
C14_Witness ==
    /\ LastIngestOk
    /\ Len(last.before) = 2
    /\ Len(sensor_data) = 2
    /\ Get(last.before[1], "device_id") = PyStr("a")
    /\ sensor_data[1] = last.before[2]
    /\ Get(sensor_data[2], "device_id") = PyStr("a")

\* C15: a control request (override or flag) and a reset of the controls
\* leave sensor_data as it was: the stored records keep the readings and
\* flags they were stamped with.
C15_RecordsAreSnapshots ==
    last.op \in {"control", "reset_all_controls"} => sensor_data = last.before

\* the lights flag was switched on after a record stamped lights False was
\* stored, and the record still says False
C15_Witness ==
    /\ last.op = "control"
    /\ last.key = "lights"
    /\ device_controls["lights"] = PyBool(TRUE)
    /\ sensor_data # <<>>
    /\ sensor_data[1]["lights"] = PyBool(FALSE)

\* C16: POST /reset/data leaves sensor_data empty and device_controls as it
\* was; a GET /data right after it lists no record and a GET /latest right
\* after it answers 404 without a record.
C16_ResetRecordsEmpties ==
    /\ [][last'.op = "reset_sensor_data" =>
              /\ sensor_data' = <<>>
              /\ device_controls' = device_controls
              /\ resp'.status = 200]_vars
    /\ [][(last.op = "reset_sensor_data" /\ last'.op = "get_all_data") =>
              /\ resp'.records = <<>>
              /\ resp'.total_records = 0
              /\ resp'.controls = device_controls]_vars
    /\ [][(last.op = "reset_sensor_data" /\ last'.op = "get_latest_data") =>
              /\ resp'.status = 404
              /\ resp'.data = EmptyDict]_vars

\* the reset emptied a store that held two records, under controls that are
\* not the defaults and still are not
C16_Witness ==
    /\ last.op = "reset_sensor_data"
    /\ Len(last.before) = 2
    /\ sensor_data = <<>>
    /\ device_controls # DefaultControls
    /\ resp.controls = device_controls

\* a control request whose value float() or int() rejects: null, or a
\* string that is no number
Uncoercible(op) ==
    /\ op.op = "control"
    /\ op.key \in {"temperature", "humidity", "gas"}
    /\ "value" \in DOMAIN op.body
    /\ \/ op.body["value"] = PyNone
       \/ op.body["value"].tag = "str" /\ op.body["value"].s \notin NumericStr

\* C17: an ingest that lacks a required field answers 400 and leaves
\* sensor_data and device_controls as they were; a control request whose
\* value cannot be cast answers 500 with an error text and leaves every
\* entry of device_controls, the addressed override included, as it was; and
\* no request answered with an error status changes either of the two.
C17_FailureChangesNothing ==
    /\ [][(last'.op = "receive_data" /\ ~(RequiredSet \subseteq DOMAIN last'.body)) =>
              /\ resp'.status = 400
              /\ sensor_data' = sensor_data
              /\ device_controls' = device_controls]_vars
    /\ [][Uncoercible(last') =>
              /\ resp'.status = 500
              /\ resp'.error # ""
              /\ device_controls' = device_controls
              /\ sensor_data' = sensor_data]_vars
    /\ [][(last'.op \in {"receive_data", "control"} /\ resp'.status >= 400) =>
              /\ sensor_data' = sensor_data
              /\ device_controls' = device_controls]_vars

\* POST /control/temperature with "abc" failed while the override was 25.5
\* and a record was stored, and both are still there
C17_Witness ==
    /\ Uncoercible(last)
    /\ last.body["value"] = PyStr("abc")
    /\ resp.status = 500
    /\ device_controls["temperature_override"] = PyFloat(255)
    /\ sensor_data # <<>>
    /\ sensor_data = last.before

\* C18: a successful ingest that carries device_id d removes from the store
\* only records whose device_id is d: every record of the store before the
\* call that has another device_id, or none, is still stored.  (Refuted for
\* d = null: d.get('device_id') is None for a record without device_id, so
\* the comparison with null removes it.)
C18_OnlySameDeviceRemoved ==
    (LastIngestOk /\ "device_id" \in DOMAIN last.body) =>
        \A i \in 1..Len(last.before) :
            ("device_id" \notin DOMAIN last.before[i]
                \/ last.before[i]["device_id"] # last.body["device_id"])
              => \E j \in 1..Len(sensor_data) : sensor_data[j] = last.before[i]

\* C19: whatever requests run between the steps of the cleanup thread, its
\* pop(0) removes a record only from a store that is longer than
\* max_records at that moment.  (Refuted: the length test and the pop are
\* two steps, and an ingest between them can leave a store within the
\* bound, whose record the pop then removes.)
C19_PopOnlyOverBound ==
    [][(cpc = "pop" /\ cpc' = "sleep")
          => (sensor_data' = Tail(sensor_data) /\ Len(sensor_data) > max_records)]_vars

\* C20: the active_controls of GET /status is the number of overrides that
\* are not None, an override of 0 or False included, plus the number of
\* flags that are True.  (Refuted: 'v not in [None, False]' leaves out an
\* override that equals False, such as motion_override False or 0.)
C20_ActiveControlsCount ==
    last.op = "system_status" =>
        resp.active_controls =
            Cardinality({k \in OverrideKeys : device_controls[k] # PyNone})
              + Cardinality({k \in FlagKeys : device_controls[k] = PyBool(TRUE)})

====
